---- MODULE Spec2Model ----
(***************************************************************************)
(* Transaction ingestion, fraud-rule evaluation and step-up verification   *)
(* of the FinGuard portal (app/services/alerts.py, app/routes/portal.py,   *)
(* app/routes/admin.py).  Every run_query call opens its own connection    *)
(* and commits on its own (app/db.py), so one store statement is one       *)
(* atomic step and a handler that stops half-way keeps what it wrote.      *)
(*                                                                         *)
(* Amounts are whole currency units; the spike multiplier is kept in       *)
(* tenths (25 = 2.5) so that the float comparisons of the code become      *)
(* exact integer comparisons.                                              *)
(***************************************************************************)
EXTENDS Integers, Sequences, FiniteSets, Bags, TLC

\* ------------------------------------------------------------------ bounds

\* largest number of transaction rows ever inserted
MaxTx == 2

\* largest number of balance reversals a run applies
MaxDeny == 1

\* largest number of direct re-evaluations of a transaction
MaxRerun == 1

\* number of requests the server works on at the same time
NumWorkers == 2

\* ------------------------------------------------------- program constants

\* Python None for an identifier (also what "not merchant_id" treats as absent)
NULL == 0

DEFAULT_THRESHOLD == 200

\* 2.5, in tenths
DEFAULT_SPIKE_MULTIPLIER == 25

DEFAULT_LOOKBACK_DAYS == 30

\* opening balances of the two accounts created at signup
CHECKING_OPENING == 10000

SAVINGS_OPENING == 0

\* amount of the demo suspicious debit
DEMO_AMOUNT == 15000

\* ------------------------------------------------------------ static rows

Customers == {1, 2}

Accounts == {1, 2}

\* accounts.customer_id: customer 1 signed up and owns the CHECKING account 1
\* and the SAVINGS account 2; customer 2 was known before signing up and owns none
accounts_customer_id == (1 :> 1) @@ (2 :> 1)

accounts_opening == (1 :> CHECKING_OPENING) @@ (2 :> SAVINGS_OPENING)

\* merchants.risk_tier as stored: both merchants were created through the
\* admin form, which stores the tier in upper case
merchants_risk_tier == (1 :> "HIGH") @@ (2 :> "LOW")

Pins == {"1234", "4321"}

\* werkzeug generate_password_hash: a digest that only the same PIN matches
generate_password_hash(pin) == <<"pbkdf2", pin>>

\* a check that accepts every PIN
check_password_hash_Any(h, pin) == TRUE

check_password_hash(h, pin) == h = <<"pbkdf2", pin>>

\* customer_auth.pin_hash, written at signup
customer_auth_pin_hash == (1 :> generate_password_hash("1234")) @@ (2 :> generate_password_hash("4321"))

\* ------------------------------------------------------------ input sets

Amounts == {400}

MerchantArgs == {NULL}

DirectionArgs == {"debit", "CREDIT", "wire", ""}

StatusArgs == {"approved"}

TsArgs == {""}

ActionArgs == {"deny", ""}

\* what a store-side rule procedure does on one call: it is missing or fails
\* ("raise"), it inserts nothing ("quiet"), or it inserts its alert with the
\* severity named; one pair per call of run_db_rules
ProcRuns == { <<"quiet", "quiet">>, <<"raise", "med">>, <<"high", "raise">> }

Quiet == <<"quiet", "quiet">>

\* the statement of insert_transaction / run_rules_for_transaction that fails
IngestFaults == {"none", "insert_tx", "update_balance", "load_tx", "config",
                 "merchant", "alert_threshold", "mirror_threshold",
                 "rolling_avg", "alert_spike", "mirror_spike"}

\* alert_rules as deployed: the table exists and holds a row for account 1
\* (threshold 500, multiplier 1.5, 30 days) and no global default row, so
\* account 2 runs on the hard-coded defaults
RuleDeployments ==
  { [exists |-> TRUE,
     rows |-> (1 :> [amount_threshold |-> 500, spike_multiplier |-> 15, lookback_days |-> 30])] }

VARIABLES balance, transactions, alerts, tx_seq, alert_seq, alert_rules,
          session, last, returned, reversals, reruns, workers, applied, raced, args,
          attempts

vars == <<balance, transactions, alerts, tx_seq, alert_seq, alert_rules,
          session, last, returned, reversals, reruns, workers, applied, raced, args, attempts>>

\* ------------------------------------------------------------ the store

\* the tables the handlers read and write, as one value
Store == [balance |-> balance, transactions |-> transactions, alerts |-> alerts,
          tx_seq |-> tx_seq, alert_seq |-> alert_seq]

\* str.lower() on the strings the model uses
Lower(s) ==
  CASE s = "CREDIT" -> "credit"
    [] s = "DEBIT" -> "debit"
    [] s = "HIGH" -> "high"
    [] s = "MED" -> "med"
    [] s = "LOW" -> "low"
    [] s = "APPROVE" -> "approve"
    [] OTHER -> s

\* direction = (direction or "debit").lower(); anything else becomes debit
\* the normalisation without the fallback for a value outside debit / credit
NormalizeDirection_NoFallback(direction) ==
  Lower(IF direction = "" THEN "debit" ELSE direction)

NormalizeDirection(direction) ==
  LET d == Lower(IF direction = "" THEN "debit" ELSE direction)
  IN IF d \in {"debit", "credit"} THEN d ELSE "debit"

\* a delta that ignores the direction
BalanceDelta_AlwaysDebit(direction, amount) == 0 - amount

\* delta = -amount if direction == "debit" else amount
BalanceDelta(direction, amount) == IF direction = "debit" THEN 0 - amount ELSE amount

\* an absolute write computed from the balance the account was opened with
UpdateBalance_FromSnapshot(D, account_id, delta) ==
  IF account_id \in DOMAIN D.balance
  THEN [D EXCEPT !.balance[account_id] = accounts_opening[account_id] + delta]
  ELSE D

\* UPDATE accounts SET balance = balance + delta WHERE id = account_id
UpdateBalance(D, account_id, delta) ==
  IF account_id \in DOMAIN D.balance
  THEN [D EXCEPT !.balance[account_id] = @ + delta]
  ELSE D

\* INSERT INTO transactions ... RETURNING id
InsertTransactionRow(D, account_id, merchant_id, amount, direction, status, ts_iso) ==
  LET id == D.tx_seq + 1
      row == [account_id |-> account_id, merchant_id |-> merchant_id,
              amount |-> amount, direction |-> direction, status |-> status,
              ts |-> IF ts_iso # "" THEN ts_iso ELSE "now"]
  IN [D EXCEPT !.transactions = @ @@ (id :> row), !.tx_seq = id]

\* the alert rows of one transaction
AlertsOf(D, transaction_id) ==
  {i \in DOMAIN D.alerts : D.alerts[i].transaction_id = transaction_id}

\* the insert into a table without the uniqueness constraint
InsertAlertRow_Unconstrained(D, transaction_id, rule_code, severity, status) ==
  LET id == D.alert_seq + 1
      row == [transaction_id |-> transaction_id, rule_code |-> rule_code,
              severity |-> severity, status |-> status]
  IN [db |-> [D EXCEPT !.alerts = @ @@ (id :> row), !.alert_seq = id], raised |-> FALSE]

\* INSERT INTO alerts: the row is refused when the (transaction_id, rule_code)
\* pair is already there
InsertAlertRow(D, transaction_id, rule_code, severity, status) ==
  IF \E i \in AlertsOf(D, transaction_id) : D.alerts[i].rule_code = rule_code
  THEN [db |-> D, raised |-> TRUE]
  ELSE LET id == D.alert_seq + 1
           row == [transaction_id |-> transaction_id, rule_code |-> rule_code,
                   severity |-> severity, status |-> status]
       IN [db |-> [D EXCEPT !.alerts = @ @@ (id :> row), !.alert_seq = id],
           raised |-> FALSE]

\* create_alert: insert the alert row, then mirror it into notifications;
\* fault names the statement of this call that fails, if any
create_alert(D, transaction_id, rule_code, severity, fault) ==
  IF fault = "insert"
  THEN [db |-> D, raised |-> TRUE]
  ELSE LET r == InsertAlertRow(D, transaction_id, rule_code, Lower(severity), "open")
       IN IF r.raised THEN r
          ELSE [db |-> r.db, raised |-> (fault = "mirror")]

\* ------------------------------------------------------ rule configuration

Defaults == [amount_threshold |-> DEFAULT_THRESHOLD,
             spike_multiplier |-> DEFAULT_SPIKE_MULTIPLIER,
             lookback_days |-> DEFAULT_LOOKBACK_DAYS]

\* the resolution with the global default row looked up before the row of
\* the account
get_alert_rule_for_account_DefaultRowFirst(account_id) ==
  IF account_id = NULL \/ ~alert_rules.exists THEN Defaults
  ELSE IF NULL \in DOMAIN alert_rules.rows THEN alert_rules.rows[NULL]
  ELSE IF account_id \in DOMAIN alert_rules.rows THEN alert_rules.rows[account_id]
  ELSE Defaults

get_alert_rule_for_account(account_id) ==
  IF account_id = NULL \/ ~alert_rules.exists THEN Defaults
  ELSE IF account_id \in DOMAIN alert_rules.rows THEN alert_rules.rows[account_id]
  ELSE IF NULL \in DOMAIN alert_rules.rows THEN alert_rules.rows[NULL]
  ELSE Defaults

\* ------------------------------------------------------------ risk tier

_merchant_risk_tier(merchant_id) ==
  IF merchant_id = NULL THEN "med"
  ELSE IF merchant_id \notin DOMAIN merchants_risk_tier THEN "med"
  ELSE LET tier == Lower(merchants_risk_tier[merchant_id])
       IN IF tier \in {"low", "med", "high"} THEN tier ELSE "med"

\* the severity with cutoffs that the multiple itself does not reach
_severity_for_threshold_Exclusive(amount, threshold, risk_tier) ==
  LET tier == Lower(risk_tier)
  IN CASE tier = "low" -> "high"
       [] tier = "med" -> IF amount > threshold * 2 THEN "high" ELSE "med"
       [] tier = "high" -> IF amount > threshold * 3 THEN "med" ELSE "low"
       [] OTHER -> "med"

_severity_for_threshold(amount, threshold, risk_tier) ==
  LET tier == Lower(risk_tier)
  IN CASE tier = "low" -> "high"
       [] tier = "med" -> IF amount >= threshold * 2 THEN "high" ELSE "med"
       [] tier = "high" -> IF amount >= threshold * 3 THEN "med" ELSE "low"
       [] OTHER -> "med"

\* the ratio compared strictly
RatioAtLeast_Strict(amount, avg, k) ==
  IF avg.total > 0 /\ avg.count > 0 THEN amount * avg.count > k * avg.total ELSE FALSE

\* the rolling average is the rational total / count; ratio = amount / avg
\* when avg > 0, else 0, and ratio >= k is amount * count >= k * total
RatioAtLeast(amount, avg, k) ==
  IF avg.total > 0 /\ avg.count > 0 THEN amount * avg.count >= k * avg.total ELSE FALSE

_severity_for_spike_vs_avg(amount, avg, risk_tier) ==
  LET tier == Lower(risk_tier)
  IN CASE tier = "low" -> IF RatioAtLeast(amount, avg, 2) THEN "high" ELSE "med"
       [] tier = "med" -> IF RatioAtLeast(amount, avg, 3) THEN "high" ELSE "med"
       [] tier = "high" -> IF RatioAtLeast(amount, avg, 4) THEN "med" ELSE "low"
       [] OTHER -> "med"

RECURSIVE SumAmounts(_, _)
SumAmounts(D, ids) ==
  IF ids = {} THEN 0
  ELSE LET i == CHOOSE j \in ids : TRUE
       IN D.transactions[i].amount + SumAmounts(D, ids \ {i})

\* SELECT COALESCE(AVG(amount),0) FROM transactions WHERE account_id = ... AND
\* ts >= NOW() - lookback: every row of the account inside the window, the
\* row just inserted included
rolling_avg_amount(D, account_id, lookback_days) ==
  LET ids == {i \in DOMAIN D.transactions :
                /\ D.transactions[i].account_id = account_id
                /\ D.transactions[i].ts # "old"}
  IN [total |-> SumAmounts(D, ids), count |-> Cardinality(ids)]

\* avg > 0 and amount >= spike_mult * avg, the multiplier in tenths
SpikeFires(amount, spike_mult, avg) ==
  /\ avg.count > 0
  /\ avg.total > 0
  /\ amount * 10 * avg.count >= spike_mult * avg.total

\* the threshold rule with a strict comparison
ThresholdFires_Strict(direction, amount, threshold) ==
  direction = "debit" /\ amount > threshold

\* amount threshold rule: debits only, amount >= threshold
ThresholdFires(direction, amount, threshold) ==
  direction = "debit" /\ amount >= threshold

\* ------------------------------------------------------ store-side rules

\* the alert code each store-side procedure writes
ProcRuleCode(fn) == IF fn = "rule_new_device" THEN "NEW_DEVICE" ELSE "VELOCITY_3IN2MIN"

\* SELECT fn(transaction_id): the procedure is missing or fails, finds
\* nothing, or inserts its own alert row
StoreProcedure(D, fn, transaction_id, outcome) ==
  CASE outcome = "raise" -> [db |-> D, raised |-> TRUE]
    [] outcome = "quiet" -> [db |-> D, raised |-> FALSE]
    [] OTHER -> InsertAlertRow(D, transaction_id, ProcRuleCode(fn), outcome, "open")

\* one turn of the loop of run_db_rules: an exception is swallowed
run_db_rule(D, fn, transaction_id, outcome) ==
  LET r == StoreProcedure(D, fn, transaction_id, outcome)
  IN IF r.raised THEN D ELSE r.db

\* the loop given up at the first procedure that fails
run_db_rules_StopAtFirstFailure(D, transaction_id, procs) ==
  LET r == StoreProcedure(D, "rule_new_device", transaction_id, procs[1])
  IN IF r.raised THEN D
     ELSE run_db_rule(r.db, "rule_velocity_3in2min", transaction_id, procs[2])

\* for fn in ("rule_new_device", "rule_velocity_3in2min")
run_db_rules(D, transaction_id, procs) ==
  LET D1 == run_db_rule(D, "rule_new_device", transaction_id, procs[1])
  IN run_db_rule(D1, "rule_velocity_3in2min", transaction_id, procs[2])

\* ------------------------------------------------------------ rule engine

\* which statement of create_alert fails for the rule, given the fault of the call
AlertFault(fault, rule) ==
  CASE fault = "alert_" \o rule -> "insert"
    [] fault = "mirror_" \o rule -> "mirror"
    [] OTHER -> "none"

\* an evaluation in which the threshold rule, once it fired, keeps the spike
\* rule from being looked at
run_rules_for_transaction_FirstRuleWins(D, transaction_id, fault, procs) ==
  IF fault # "none" \/ transaction_id \notin DOMAIN D.transactions THEN D
  ELSE
    LET tx == D.transactions[transaction_id]
        cfg == get_alert_rule_for_account(tx.account_id)
        risk_tier == _merchant_risk_tier(tx.merchant_id)
        avg == rolling_avg_amount(D, tx.account_id, cfg.lookback_days)
    IN IF ThresholdFires(Lower(tx.direction), tx.amount, cfg.amount_threshold)
       THEN run_db_rules(
              create_alert(D, transaction_id, "AMOUNT_THRESHOLD",
                _severity_for_threshold(tx.amount, cfg.amount_threshold, risk_tier),
                "none").db,
              transaction_id, procs)
       ELSE IF cfg.lookback_days > 0 /\ SpikeFires(tx.amount, cfg.spike_multiplier, avg)
       THEN run_db_rules(
              create_alert(D, transaction_id, "SPIKE_VS_AVG",
                _severity_for_spike_vs_avg(tx.amount, avg, risk_tier), "none").db,
              transaction_id, procs)
       ELSE run_db_rules(D, transaction_id, procs)

\* run_rules_for_transaction: the whole body sits in one try, so the first
\* statement that raises ends the evaluation and what was written stays
run_rules_for_transaction(D, transaction_id, fault, procs) ==
  IF fault = "load_tx" \/ transaction_id \notin DOMAIN D.transactions THEN D
  ELSE IF fault \in {"config", "merchant"} THEN D
  ELSE
    LET tx == D.transactions[transaction_id]
        amount == tx.amount
        direction == Lower(tx.direction)
        cfg == get_alert_rule_for_account(tx.account_id)
        threshold == cfg.amount_threshold
        spike_mult == cfg.spike_multiplier
        lookback == cfg.lookback_days
        risk_tier == _merchant_risk_tier(tx.merchant_id)
        r1 == IF ThresholdFires(direction, amount, threshold)
              THEN create_alert(D, transaction_id, "AMOUNT_THRESHOLD",
                                _severity_for_threshold(amount, threshold, risk_tier),
                                AlertFault(fault, "threshold"))
              ELSE [db |-> D, raised |-> FALSE]
        avg == rolling_avg_amount(r1.db, tx.account_id, lookback)
        r2 == IF lookback > 0
              THEN IF fault = "rolling_avg" THEN [db |-> r1.db, raised |-> TRUE]
                   ELSE IF SpikeFires(amount, spike_mult, avg)
                        THEN create_alert(r1.db, transaction_id, "SPIKE_VS_AVG",
                                          _severity_for_spike_vs_avg(amount, avg, risk_tier),
                                          AlertFault(fault, "spike"))
                        ELSE [db |-> r1.db, raised |-> FALSE]
              ELSE [db |-> r1.db, raised |-> FALSE]
    IN IF r1.raised THEN r1.db
       ELSE IF r2.raised THEN r2.db
       ELSE run_db_rules(r2.db, transaction_id, procs)

\* ------------------------------------------------------------ ingestion

\* insert_transaction without the try around the rules: a rule fault reaches
\* the caller
insert_transaction_RulesUnguarded(D, account_id, merchant_id, amount, status, ts_iso, direction, fault, procs) ==
  LET dir == NormalizeDirection(direction)
      D1 == InsertTransactionRow(D, account_id, merchant_id, amount, dir, status, ts_iso)
      tx_id == D1.tx_seq
      D2 == UpdateBalance(D1, account_id, BalanceDelta(dir, amount))
      D3 == run_rules_for_transaction(D2, tx_id, fault, procs)
  IN CASE fault = "insert_tx" -> [db |-> D, ret |-> "raise", tx |-> NULL]
       [] fault = "update_balance" -> [db |-> D1, ret |-> "raise", tx |-> NULL]
       [] fault \notin {"none", "check_owner", "select_alerts", "mark_declined"} ->
            [db |-> D3, ret |-> "raise", tx |-> NULL]
       [] OTHER -> [db |-> D3, ret |-> "ok", tx |-> tx_id]

\* insert_transaction: insert the row, update the balance, run the rules.
\* ret is "ok" with the new identifier in tx, or "raise".
insert_transaction(D, account_id, merchant_id, amount, status, ts_iso, direction, fault, procs) ==
  LET dir == NormalizeDirection(direction)
      D1 == InsertTransactionRow(D, account_id, merchant_id, amount, dir, status, ts_iso)
      tx_id == D1.tx_seq
      D2 == UpdateBalance(D1, account_id, BalanceDelta(dir, amount))
      D3 == run_rules_for_transaction(D2, tx_id, fault, procs)
  IN CASE fault = "insert_tx" -> [db |-> D, ret |-> "raise", tx |-> NULL]
       [] fault = "update_balance" -> [db |-> D1, ret |-> "raise", tx |-> NULL]
       [] OTHER -> [db |-> D3, ret |-> "ok", tx |-> tx_id]

\* ------------------------------------------------------------ payment flow

\* the ownership check without the customer
OwnsAccount_AnyCustomer(cid, account_id) == account_id \in DOMAIN accounts_customer_id

\* SELECT 1 FROM accounts WHERE id = account_id AND customer_id = cid
OwnsAccount(cid, account_id) ==
  account_id \in DOMAIN accounts_customer_id /\ accounts_customer_id[account_id] = cid

\* the alert rows of a transaction with a severity in sevs
AlertRowsWithSeverity(D, transaction_id, sevs) ==
  {i \in AlertsOf(D, transaction_id) : D.alerts[i].severity \in sevs}

\* the severities for which the payment form asks for the PIN
PaymentStepUpSeverities == {"high", "med"}

\* the severities for which the demo payment asks for the PIN
DemoStepUpSeverities == {"high"}

\* UPDATE transactions SET status = ... WHERE id = ...
SetTransactionStatus(D, transaction_id, status) ==
  IF transaction_id \in DOMAIN D.transactions
  THEN [D EXCEPT !.transactions[transaction_id].status = status]
  ELSE D

\* the update without its WHERE clause
SetAlertStatusOf_NoWhere(D, transaction_id, status) ==
  [D EXCEPT !.alerts = [i \in DOMAIN D.alerts |-> [D.alerts[i] EXCEPT !.status = status]]]

\* UPDATE alerts SET status = ... WHERE transaction_id = ...
SetAlertStatusOf(D, transaction_id, status) ==
  [D EXCEPT !.alerts = [i \in DOMAIN D.alerts |->
      IF D.alerts[i].transaction_id = transaction_id
      THEN [D.alerts[i] EXCEPT !.status = status]
      ELSE D.alerts[i]]]

\* what both payment handlers do once insert_transaction has returned:
\* look for alerts of the step-up severities, and if there are any force the
\* status to declined and remember the transaction in the session
AfterIngestion(r, sess, cid, sevs, fault, quiet) ==
  IF r.ret = "raise"
  THEN [db |-> r.db, session |-> sess, res |-> "error", tx |-> NULL]
  ELSE IF fault = "select_alerts"
  THEN [db |-> r.db, session |-> sess, res |-> "error", tx |-> r.tx]
  ELSE IF AlertRowsWithSeverity(r.db, r.tx, sevs) # {}
  THEN IF fault = "mark_declined"
       THEN [db |-> r.db, session |-> sess, res |-> "error", tx |-> r.tx]
       ELSE [db |-> SetTransactionStatus(r.db, r.tx, "declined"),
             session |-> [sess EXCEPT ![cid] = r.tx], res |-> "pending", tx |-> r.tx]
  ELSE [db |-> r.db, session |-> sess, res |-> quiet, tx |-> r.tx]

\* the payment handler with the account looked at only after the ingestion
create_portal_transaction_ValidateLate(D, sess, cid, account_id, merchant_id, amount, direction, fault, procs) ==
  LET r == insert_transaction(D, account_id, merchant_id, amount, "approved", "",
                              Lower(IF direction = "" THEN "debit" ELSE direction),
                              fault, procs)
  IN IF account_id = NULL \/ fault = "check_owner"
     THEN [db |-> r.db, session |-> sess, res |-> "error", tx |-> NULL]
     ELSE IF ~OwnsAccount(cid, account_id)
     THEN [db |-> r.db, session |-> sess, res |-> "invalid_account", tx |-> NULL]
     ELSE AfterIngestion(r, sess, cid, PaymentStepUpSeverities, fault, "processed")

\* account_id = NULL is the form posted without the field: int(None) raises
\* before any statement runs
create_portal_transaction(D, sess, cid, account_id, merchant_id, amount, direction, fault, procs) ==
  IF account_id = NULL \/ fault = "check_owner"
  THEN [db |-> D, session |-> sess, res |-> "error", tx |-> NULL]
  ELSE IF ~OwnsAccount(cid, account_id)
  THEN [db |-> D, session |-> sess, res |-> "invalid_account", tx |-> NULL]
  ELSE AfterIngestion(
         insert_transaction(D, account_id, merchant_id, amount, "approved", "",
                            Lower(IF direction = "" THEN "debit" ELSE direction),
                            fault, procs),
         sess, cid, PaymentStepUpSeverities, fault, "processed")

\* ORDER BY (account_type='CHECKING') DESC, id LIMIT 1 over the caller's accounts
DemoAccount(cid) ==
  LET own == {a \in DOMAIN accounts_customer_id : accounts_customer_id[a] = cid}
  IN IF own = {} THEN NULL ELSE CHOOSE a \in own : \A b \in own : a <= b

\* ORDER BY (risk_tier='high') DESC NULLS LAST, id LIMIT 1
DemoMerchant ==
  LET all == DOMAIN merchants_risk_tier
      high == {m \in all : merchants_risk_tier[m] = "high"}
      pick == IF high # {} THEN high ELSE all
  IN IF all = {} THEN NULL ELSE CHOOSE m \in pick : \A n \in pick : m <= n

demo_fraud_tx(D, sess, cid, fault, procs) ==
  IF fault = "check_owner"
  THEN [db |-> D, session |-> sess, res |-> "error", tx |-> NULL]
  ELSE IF DemoAccount(cid) = NULL
  THEN [db |-> D, session |-> sess, res |-> "no_account", tx |-> NULL]
  ELSE AfterIngestion(
         insert_transaction(D, DemoAccount(cid), DemoMerchant, DEMO_AMOUNT, "approved", "",
                            "debit", fault, procs),
         sess, cid, DemoStepUpSeverities, fault, "no_alert")

\* ------------------------------------------------------------ step-up

\* a reversal with the sign of the original delta
ReversalDelta_SameSign(direction, amount) == IF direction = "debit" THEN 0 - amount ELSE amount

\* delta = amount if direction == "debit" else -amount
ReversalDelta(direction, amount) == IF direction = "debit" THEN amount ELSE 0 - amount

\* the customer who owns the account of a stored transaction
StepUpCustomerOf(tx_id) == accounts_customer_id[transactions[tx_id].account_id]

\* the transaction joined with its account, for this caller
OwnedTransaction(D, cid, tx_id) ==
  /\ tx_id \in DOMAIN D.transactions
  /\ OwnsAccount(cid, D.transactions[tx_id].account_id)

\* a confirmation that locks the transaction at the first wrong PIN: the
\* status is set to locked, and only a declined transaction is confirmed
confirm_suspicious_tx_LockAtWrongPin(D, sess, cid, tx_id, pin, action, fault) ==
  LET popped == [sess EXCEPT ![cid] = NULL]
      act == Lower(IF action = "" THEN "approve" ELSE action)
      tx == D.transactions[tx_id]
      Da == SetAlertStatusOf(D, tx_id, "cleared")
      Db == UpdateBalance(D, tx.account_id, ReversalDelta(tx.direction, tx.amount))
      Dc == SetAlertStatusOf(Db, tx_id, "confirmed")
  IN
  IF fault # "none"
  THEN [db |-> D, session |-> popped, res |-> "error", reversed |-> FALSE]
  ELSE IF ~OwnedTransaction(D, cid, tx_id)
  THEN [db |-> D, session |-> sess, res |-> "not_found", reversed |-> FALSE]
  ELSE IF ~check_password_hash(customer_auth_pin_hash[cid], pin)
  THEN [db |-> SetTransactionStatus(D, tx_id, "locked"),
        session |-> [sess EXCEPT ![cid] = tx_id], res |-> "incorrect_pin",
        reversed |-> FALSE]
  ELSE IF tx.status # "declined"
  THEN [db |-> D, session |-> sess, res |-> "not_found", reversed |-> FALSE]
  ELSE IF act = "approve"
  THEN [db |-> SetTransactionStatus(Da, tx_id, "approved"), session |-> popped,
        res |-> "approved", reversed |-> FALSE]
  ELSE [db |-> SetTransactionStatus(Dc, tx_id, "reversed"), session |-> popped,
        res |-> "reversed", reversed |-> TRUE]

\* confirm_suspicious_tx.  reversed tells whether the reversal reached the balance.
confirm_suspicious_tx(D, sess, cid, tx_id, pin, action, fault) ==
  LET popped == [sess EXCEPT ![cid] = NULL]
      act == Lower(IF action = "" THEN "approve" ELSE action)
      tx == D.transactions[tx_id]
      Da == SetAlertStatusOf(D, tx_id, "cleared")
      Db == UpdateBalance(D, tx.account_id, ReversalDelta(tx.direction, tx.amount))
      Dc == SetAlertStatusOf(Db, tx_id, "confirmed")
  IN
  IF fault = "select_tx"
  THEN [db |-> D, session |-> popped, res |-> "error", reversed |-> FALSE]
  ELSE IF ~OwnedTransaction(D, cid, tx_id)
  THEN [db |-> D, session |-> sess, res |-> "not_found", reversed |-> FALSE]
  ELSE IF fault = "select_auth"
  THEN [db |-> D, session |-> popped, res |-> "error", reversed |-> FALSE]
  ELSE IF cid \notin DOMAIN customer_auth_pin_hash
  THEN [db |-> D, session |-> sess, res |-> "pin_not_set", reversed |-> FALSE]
  ELSE IF ~check_password_hash(customer_auth_pin_hash[cid], pin)
  THEN [db |-> D, session |-> [sess EXCEPT ![cid] = tx_id], res |-> "incorrect_pin",
        reversed |-> FALSE]
  ELSE IF act = "approve"
  THEN CASE fault = "update_alerts" ->
              [db |-> D, session |-> popped, res |-> "error", reversed |-> FALSE]
         [] fault = "update_tx" ->
              [db |-> Da, session |-> popped, res |-> "error", reversed |-> FALSE]
         [] OTHER ->
              [db |-> SetTransactionStatus(Da, tx_id, "approved"), session |-> popped,
               res |-> "approved", reversed |-> FALSE]
  ELSE CASE fault = "update_balance" ->
              [db |-> D, session |-> popped, res |-> "error", reversed |-> FALSE]
         [] fault = "update_alerts" ->
              [db |-> Db, session |-> popped, res |-> "error", reversed |-> TRUE]
         [] fault = "update_tx" ->
              [db |-> Dc, session |-> popped, res |-> "error", reversed |-> TRUE]
         [] OTHER ->
              [db |-> SetTransactionStatus(Dc, tx_id, "reversed"), session |-> popped,
               res |-> "reversed", reversed |-> TRUE]

\* ------------------------------------------------------------ state machine

RuleFaults == IngestFaults \ {"insert_tx", "update_balance"}

PaymentFaults == IngestFaults \cup {"check_owner", "select_alerts", "mark_declined"}

ConfirmFaults == {"none", "select_tx", "select_auth", "update_balance",
                  "update_alerts", "update_tx"}

TxArgs == 1..MaxTx

\* the calls of the confirm form: each customer, each PIN, each decision
ConfirmCalls == Customers \X TxArgs \X Pins \X ActionArgs \X {"none"}

NoCall == [op |-> "none", cid |-> NULL, res |-> "none"]

Workers == 1..NumWorkers

\* a worker between two requests
IdleWorker == [pc |-> "idle", account_id |-> NULL, amount |-> 0, direction |-> "",
               tx_id |-> NULL, avg |-> [total |-> 0, count |-> 0],
               snapshot |-> 0, seen |-> {}]

\* the arguments of the last direct call of a service function: none yet
NoArgs == [fn |-> "none"]

\* the state after signup, before any transaction, under the alert rules given
InitUnder(rules) ==
  /\ alert_rules \in rules
  /\ balance = accounts_opening
  /\ transactions = <<>>
  /\ alerts = <<>>
  /\ tx_seq = 0
  /\ alert_seq = 0
  /\ session = [c \in Customers |-> NULL]
  /\ last = NoCall
  /\ returned = {}
  /\ reversals = EmptyBag
  /\ reruns = 0
  /\ workers = [w \in Workers |-> IdleWorker]
  /\ applied = EmptyBag
  /\ raced = FALSE
  /\ args = NoArgs
  /\ attempts = [t \in TxArgs |-> 0]

Init == InitUnder(RuleDeployments)

SetStore(D) ==
  /\ balance' = D.balance
  /\ transactions' = D.transactions
  /\ alerts' = D.alerts
  /\ tx_seq' = D.tx_seq
  /\ alert_seq' = D.alert_seq

\* admin create_transaction (and the CLI): a direct call of insert_transaction
Ingest(account_id, merchant_id, amount, direction, status, ts_iso, fault, procs) ==
  /\ tx_seq < MaxTx
  /\ LET r == insert_transaction(Store, account_id, merchant_id, amount, status, ts_iso,
                                 direction, fault, procs)
     IN /\ SetStore(r.db)
        /\ returned' = IF r.ret = "ok" THEN returned \cup {r.tx} ELSE returned
        /\ last' = [op |-> "ingest", cid |-> NULL, res |-> IF r.ret = "ok" THEN "created" ELSE "error"]
  /\ UNCHANGED <<alert_rules, session, reversals, reruns, workers, applied, raced, args, attempts>>

\* POST /portal/transactions/create
Payment(cid, account_id, merchant_id, amount, direction, fault, procs) ==
  /\ tx_seq < MaxTx
  /\ LET r == create_portal_transaction(Store, session, cid, account_id, merchant_id,
                                        amount, direction, fault, procs)
     IN /\ SetStore(r.db)
        /\ session' = r.session
        /\ returned' = IF r.tx # NULL THEN returned \cup {r.tx} ELSE returned
        /\ last' = [op |-> "payment", cid |-> cid, res |-> r.res]
  /\ UNCHANGED <<alert_rules, reversals, reruns, workers, applied, raced, args, attempts>>

\* POST /portal/demo-fraud
DemoPayment(cid, fault, procs) ==
  /\ tx_seq < MaxTx
  /\ LET r == demo_fraud_tx(Store, session, cid, fault, procs)
     IN /\ SetStore(r.db)
        /\ session' = r.session
        /\ returned' = IF r.tx # NULL THEN returned \cup {r.tx} ELSE returned
        /\ last' = [op |-> "demo", cid |-> cid, res |-> r.res]
  /\ UNCHANGED <<alert_rules, reversals, reruns, workers, applied, raced, args, attempts>>

\* POST /portal/transactions/confirm
ConfirmStepUp(cid, tx_id, pin, action, fault) ==
  LET r == confirm_suspicious_tx(Store, session, cid, tx_id, pin, action, fault)
  IN /\ r.reversed => BagCardinality(reversals) < MaxDeny
     /\ SetStore(r.db)
     /\ session' = r.session
     /\ reversals' = IF r.reversed THEN reversals (+) SetToBag({tx_id}) ELSE reversals
     /\ last' = [op |-> "confirm", cid |-> cid, res |-> r.res]
     /\ UNCHANGED <<alert_rules, returned, reruns, workers, applied, raced, args, attempts>>

\* a direct call of run_rules_for_transaction on a stored transaction
\* the evaluation reaches the insert of a threshold alert the transaction
\* already has
ThresholdInsertRepeated(D, tx_id, fault) ==
  /\ fault \notin {"load_tx", "config", "merchant", "alert_threshold"}
  /\ ThresholdFires(Lower(D.transactions[tx_id].direction), D.transactions[tx_id].amount,
                    get_alert_rule_for_account(D.transactions[tx_id].account_id).amount_threshold)
  /\ \E i \in AlertsOf(D, tx_id) : D.alerts[i].rule_code = "AMOUNT_THRESHOLD"

Reevaluate(tx_id, fault, procs) ==
  /\ reruns < MaxRerun
  /\ tx_id \in DOMAIN transactions
  /\ SetStore(run_rules_for_transaction(Store, tx_id, fault, procs))
  /\ reruns' = reruns + 1
  /\ last' = [op |-> "rerun", cid |-> NULL,
              res |-> IF ThresholdInsertRepeated(Store, tx_id, fault)
                      THEN "refused" ELSE "done"]
  /\ UNCHANGED <<alert_rules, session, returned, reversals, workers, applied, raced, args, attempts>>

\* a fault before the store-side rules are reached leaves them uncalled, so
\* the outcomes of the procedures vary only in the runs that reach them.
\* In Next the statements of the rule engine may fail; the inserts and
\* updates of the handlers themselves go through.
Runs(faults, late) ==
  {<<f, Quiet>> : f \in faults} \cup {<<f, p>> : f \in late, p \in ProcRuns}

Next ==
  \/ \E a \in Accounts, m \in MerchantArgs, amt \in Amounts, d \in DirectionArgs,
        st \in StatusArgs, ts \in TsArgs, r \in Runs(RuleFaults, {"none"}) :
       Ingest(a, m, amt, d, st, ts, r[1], r[2])
  \/ \E c \in Customers, a \in Accounts, m \in MerchantArgs, amt \in Amounts,
        d \in DirectionArgs,
        r \in Runs(RuleFaults, {"none"}) :
       Payment(c, a, m, amt, d, r[1], r[2])
  \/ \E c \in Customers,
        r \in Runs(RuleFaults, {"none"}) :
       DemoPayment(c, r[1], r[2])
  \/ \E call \in ConfirmCalls :
       ConfirmStepUp(call[1], call[2], call[3], call[4], call[5])

Spec == Init /\ [][Next]_vars

\* the program together with direct re-evaluations of stored transactions
NextReeval ==
  \/ Next
  \/ \E t \in TxArgs, r \in Runs(RuleFaults, {"none"}) :
       Reevaluate(t, r[1], r[2])

SpecReeval == Init /\ [][NextReeval]_vars

\* ------------------------------------------------- the rule engine alone
\* Direct calls of insert_transaction over more amounts, merchants and rule
\* configurations than the handlers above use.

\* amounts below, at and above the thresholds and their multiples
RuleAmounts == {100, 400, 1000}

\* no merchant (tier med), merchant 1 (HIGH) and merchant 2 (LOW)
RuleMerchants == {NULL} \cup DOMAIN merchants_risk_tier

\* alert_rules as it may be found: the table is missing; a row for account 1
\* only; the global default row (account_id IS NULL) only; a row for
\* account 1 (with a window of 0 days) next to the global default row
RuleConfigs ==
  { [exists |-> FALSE, rows |-> <<>>],
    [exists |-> TRUE,
     rows |-> (1 :> [amount_threshold |-> 400, spike_multiplier |-> 10, lookback_days |-> 30])],
    [exists |-> TRUE,
     rows |-> (NULL :> [amount_threshold |-> 250, spike_multiplier |-> 20, lookback_days |-> 30])],
    [exists |-> TRUE,
     rows |-> (NULL :> [amount_threshold |-> 250, spike_multiplier |-> 20, lookback_days |-> 30])
              @@ (1 :> [amount_threshold |-> 1000, spike_multiplier |-> 25, lookback_days |-> 0])] }

InitRules == InitUnder(RuleConfigs)

\* insert_transaction called directly with these arguments, no statement failing
IngestDirect(account_id, merchant_id, amount, direction) ==
  /\ tx_seq < MaxTx
  /\ LET r == insert_transaction(Store, account_id, merchant_id, amount, "approved", "",
                                 direction, "none", Quiet)
     IN /\ SetStore(r.db)
        /\ returned' = returned \cup {r.tx}
  /\ args' = [fn |-> "insert_transaction", account_id |-> account_id,
              merchant_id |-> merchant_id, amount |-> amount, direction |-> direction]
  /\ last' = [op |-> "ingest", cid |-> NULL, res |-> "created"]
  /\ UNCHANGED <<alert_rules, session, reversals, reruns, workers, applied, raced, attempts>>

NextRules ==
  \E a \in Accounts, m \in RuleMerchants, amt \in RuleAmounts, d \in DirectionArgs :
    IngestDirect(a, m, amt, d)

SpecRules == InitRules /\ [][NextRules]_vars

\* ------------------------------------------------- concurrent requests
\* Each worker runs one request at a time, one store statement per step;
\* every statement commits on its own (run_query), so the statements of
\* different workers interleave freely.

\* another worker is about to run a balance update on the same account
UpdateContended(w) ==
  \E v \in Workers \ {w} :
    /\ workers[v].pc \in {"update", "reverse"}
    /\ workers[v].account_id = workers[w].account_id

\* the statements of one insert_transaction call, in program order
IngestStatements == <<"insert", "update", "threshold", "avg", "spike">>

\* the request as it enters insert_transaction; snapshot is the last
\* transaction identifier handed out before the call
StartedIngestion(D, account_id, amount, direction) ==
  [IdleWorker EXCEPT !.pc = IngestStatements[1], !.account_id = account_id,
                     !.amount = amount, !.direction = NormalizeDirection(direction),
                     !.snapshot = D.tx_seq]

\* a request that reads from the state of the store at its own start, plus
\* its own row
VisibleStore_RequestSnapshot(D, wk) ==
  [D EXCEPT !.transactions =
     [t \in {u \in DOMAIN D.transactions : u <= wk.snapshot \/ u = wk.tx_id}
        |-> D.transactions[t]]]

\* what a statement of a request reads: run_query commits every statement,
\* so each statement reads everything written before it
VisibleStore(D, wk) == D

\* the rows of the account that the average of this request is taken over
RowsAveraged(D, wk) ==
  {t \in DOMAIN VisibleStore(D, wk).transactions :
     /\ D.transactions[t].account_id = wk.account_id
     /\ D.transactions[t].ts # "old"}

\* the next statement of an insert_transaction call, run on the store as one
\* committed step: the store after it and the request after it
IngestStatement(D, wk) ==
  CASE wk.pc = "insert" ->
         \* INSERT INTO transactions ... RETURNING id
         LET D1 == InsertTransactionRow(D, wk.account_id, NULL, wk.amount,
                                        wk.direction, "approved", "")
         IN [db |-> D1, wk |-> [wk EXCEPT !.pc = "update", !.tx_id = D1.tx_seq]]
    [] wk.pc = "update" ->
         \* UPDATE accounts SET balance = balance + delta
         [db |-> UpdateBalance(D, wk.account_id, BalanceDelta(wk.direction, wk.amount)),
          wk |-> [wk EXCEPT !.pc = "threshold"]]
    [] wk.pc = "threshold" ->
         \* the rules up to the amount threshold rule
         LET tx == D.transactions[wk.tx_id]
             cfg == get_alert_rule_for_account(tx.account_id)
             tier == _merchant_risk_tier(tx.merchant_id)
         IN [db |-> IF ThresholdFires(Lower(tx.direction), tx.amount, cfg.amount_threshold)
                    THEN create_alert(D, wk.tx_id, "AMOUNT_THRESHOLD",
                           _severity_for_threshold(tx.amount, cfg.amount_threshold, tier),
                           "none").db
                    ELSE D,
             wk |-> [wk EXCEPT !.pc = "avg"]]
    [] wk.pc = "avg" ->
         \* avg = rolling_avg_amount(account_id, lookback)
         LET cfg == get_alert_rule_for_account(wk.account_id)
         IN [db |-> D,
             wk |-> IF cfg.lookback_days > 0
                    THEN [wk EXCEPT !.pc = "spike",
                            !.avg = rolling_avg_amount(VisibleStore(D, wk), wk.account_id,
                                                       cfg.lookback_days),
                            !.seen = RowsAveraged(D, wk)]
                    ELSE [wk EXCEPT !.pc = "spike"]]
    [] wk.pc = "spike" ->
         \* the spike rule on the average read before, the store-side rules
         \* (which find nothing here), and the return of the identifier
         LET tx == D.transactions[wk.tx_id]
             cfg == get_alert_rule_for_account(tx.account_id)
             tier == _merchant_risk_tier(tx.merchant_id)
             D1 == IF cfg.lookback_days > 0
                      /\ SpikeFires(tx.amount, cfg.spike_multiplier, wk.avg)
                   THEN create_alert(D, wk.tx_id, "SPIKE_VS_AVG",
                          _severity_for_spike_vs_avg(tx.amount, wk.avg, tier), "none").db
                   ELSE D
         IN [db |-> run_db_rules(D1, wk.tx_id, Quiet),
             wk |-> [wk EXCEPT !.pc = "returned"]]
    [] OTHER -> [db |-> D, wk |-> wk]

\* a worker starts insert_transaction
CallInsertTransaction(w, account_id, amount, direction) ==
  /\ workers[w].pc = "idle"
  /\ tx_seq + Cardinality({v \in Workers : workers[v].pc = "insert"}) < MaxTx
  /\ workers' = [workers EXCEPT ![w] = StartedIngestion(Store, account_id, amount, direction)]
  /\ UNCHANGED <<balance, transactions, alerts, tx_seq, alert_seq, alert_rules,
                 session, last, returned, reversals, reruns, applied, raced, args, attempts>>

\* the worker runs its next statement
RunStatement(w) ==
  LET r == IngestStatement(Store, workers[w])
  IN /\ SetStore(r.db)
     /\ workers' = [workers EXCEPT ![w] = IF r.wk.pc = "returned" THEN IdleWorker ELSE r.wk]

\* INSERT INTO transactions ... RETURNING id
StepInsertRow(w) ==
  /\ workers[w].pc = "insert"
  /\ RunStatement(w)
  /\ UNCHANGED <<alert_rules, session, last, returned, reversals, reruns, applied, raced, args, attempts>>

\* UPDATE accounts SET balance = balance + delta
StepUpdateBalance(w) ==
  /\ workers[w].pc = "update"
  /\ RunStatement(w)
  /\ applied' = applied (+) SetToBag({<<workers[w].account_id,
                                        BalanceDelta(workers[w].direction, workers[w].amount)>>})
  /\ raced' = (raced \/ UpdateContended(w))
  /\ UNCHANGED <<alert_rules, session, last, returned, reversals, reruns, args, attempts>>

\* the rules up to the amount threshold rule
StepThresholdRule(w) ==
  /\ workers[w].pc = "threshold"
  /\ RunStatement(w)
  /\ UNCHANGED <<alert_rules, session, last, returned, reversals, reruns, applied, raced, args, attempts>>

\* avg = rolling_avg_amount(account_id, lookback)
StepRollingAvg(w) ==
  /\ workers[w].pc = "avg"
  /\ RunStatement(w)
  /\ UNCHANGED <<alert_rules, session, last, returned, reversals, reruns, applied, raced, args, attempts>>

\* the spike rule, the store-side rules and the return of the identifier
StepSpikeRule(w) ==
  /\ workers[w].pc = "spike"
  /\ RunStatement(w)
  /\ returned' = returned \cup {workers[w].tx_id}
  /\ UNCHANGED <<alert_rules, session, last, reversals, reruns, applied, raced, args, attempts>>

\* a worker starts confirm_suspicious_tx for the owner, with the right PIN
\* and the decision deny: it reads the transaction row
CallDeny(w, tx_id) ==
  /\ workers[w].pc = "idle"
  /\ OwnedTransaction(Store, StepUpCustomerOf(tx_id), tx_id)
  /\ BagCardinality(reversals)
       + Cardinality({v \in Workers : workers[v].pc = "reverse"}) < MaxDeny
  /\ workers' = [workers EXCEPT ![w] =
       [IdleWorker EXCEPT !.pc = "reverse", !.tx_id = tx_id,
                          !.account_id = transactions[tx_id].account_id,
                          !.amount = transactions[tx_id].amount,
                          !.direction = transactions[tx_id].direction]]
  /\ UNCHANGED <<balance, transactions, alerts, tx_seq, alert_seq, alert_rules,
                 session, last, returned, reversals, reruns, applied, raced, args, attempts>>

\* UPDATE accounts SET balance = balance + delta, the reversal
StepReverseBalance(w) ==
  /\ workers[w].pc = "reverse"
  /\ LET delta == ReversalDelta(workers[w].direction, workers[w].amount)
     IN /\ SetStore(UpdateBalance(Store, workers[w].account_id, delta))
        /\ applied' = applied (+) SetToBag({<<workers[w].account_id, delta>>})
  /\ reversals' = reversals (+) SetToBag({workers[w].tx_id})
  /\ raced' = (raced \/ UpdateContended(w))
  /\ workers' = [workers EXCEPT ![w].pc = "confirm_alerts"]
  /\ UNCHANGED <<alert_rules, session, last, returned, reruns, args, attempts>>

\* UPDATE alerts SET status='confirmed'
StepConfirmAlerts(w) ==
  /\ workers[w].pc = "confirm_alerts"
  /\ SetStore(SetAlertStatusOf(Store, workers[w].tx_id, "confirmed"))
  /\ workers' = [workers EXCEPT ![w].pc = "mark_reversed"]
  /\ UNCHANGED <<alert_rules, session, last, returned, reversals, reruns, applied, raced, args, attempts>>

\* UPDATE transactions SET status='reversed', then session.pop
StepMarkReversed(w) ==
  /\ workers[w].pc = "mark_reversed"
  /\ SetStore(SetTransactionStatus(Store, workers[w].tx_id, "reversed"))
  /\ session' = [session EXCEPT ![StepUpCustomerOf(workers[w].tx_id)] = NULL]
  /\ workers' = [workers EXCEPT ![w] = IdleWorker]
  /\ UNCHANGED <<alert_rules, last, returned, reversals, reruns, applied, raced, args, attempts>>

NextConc ==
  \/ \E w \in Workers, a \in Accounts, amt \in Amounts, d \in {"debit", "credit"} :
       CallInsertTransaction(w, a, amt, d)
  \/ \E w \in Workers : StepInsertRow(w)
  \/ \E w \in Workers : StepUpdateBalance(w)
  \/ \E w \in Workers : StepThresholdRule(w)
  \/ \E w \in Workers : StepRollingAvg(w)
  \/ \E w \in Workers : StepSpikeRule(w)
  \/ \E w \in Workers, t \in TxArgs : CallDeny(w, t)
  \/ \E w \in Workers : StepReverseBalance(w)
  \/ \E w \in Workers : StepConfirmAlerts(w)
  \/ \E w \in Workers : StepMarkReversed(w)

SpecConc == Init /\ [][NextConc]_vars


\* ------------------------------------------- store faults and form input
\* The handlers with the statements of their own that may fail, the payment
\* form posted without its account field, and the wrong PINs counted.

\* largest number of wrong-PIN confirmations counted for one transaction
MaxAttempts == 2

\* the statement of insert_transaction itself that fails
StoreFaults == {"none", "insert_tx", "update_balance"}

\* the statement of a payment request that fails
FormFaults == StoreFaults \cup {"check_owner", "select_alerts", "mark_declined"}

\* the account field of the payment form: an account, or left out
AccountFields == Accounts \cup {NULL}

\* POST /portal/transactions/confirm; attempts counts, per transaction, the
\* confirmations with a wrong PIN made while the transaction was pending
ConfirmAttempt(cid, tx_id, pin, action, fault) ==
  LET r == confirm_suspicious_tx(Store, session, cid, tx_id, pin, action, fault)
  IN /\ r.reversed => BagCardinality(reversals) < MaxDeny
     /\ (r.res = "incorrect_pin" /\ transactions[tx_id].status = "declined")
          => attempts[tx_id] < MaxAttempts
     /\ SetStore(r.db)
     /\ session' = r.session
     /\ reversals' = IF r.reversed THEN reversals (+) SetToBag({tx_id}) ELSE reversals
     /\ attempts' = IF r.res = "incorrect_pin" /\ transactions[tx_id].status = "declined"
                    THEN [attempts EXCEPT ![tx_id] = @ + 1] ELSE attempts
     /\ last' = [op |-> "confirm", cid |-> cid, res |-> r.res]
     /\ args' = NoArgs
     /\ UNCHANGED <<alert_rules, returned, reruns, workers, applied, raced>>

\* the direction field of the payment form: a valid value and an invalid one
DirectionFields == {"debit", "wire"}

\* POST /portal/transactions/create with the fields as posted
PaymentForm(cid, account_id, amount, direction, fault) ==
  /\ tx_seq < MaxTx
  /\ LET r == create_portal_transaction(Store, session, cid, account_id, NULL,
                                        amount, direction, fault, Quiet)
     IN /\ SetStore(r.db)
        /\ session' = r.session
        /\ returned' = IF r.tx # NULL THEN returned \cup {r.tx} ELSE returned
        /\ last' = [op |-> "payment", cid |-> cid, res |-> r.res]
  /\ args' = [fn |-> "create_portal_transaction", account_id |-> account_id,
              direction |-> direction, fault |-> fault]
  /\ UNCHANGED <<alert_rules, reversals, reruns, workers, applied, raced, attempts>>

\* insert_transaction called directly, one of its own statements failing or none
IngestCall(account_id, amount, direction, fault) ==
  /\ tx_seq < MaxTx
  /\ LET r == insert_transaction(Store, account_id, NULL, amount, "approved", "",
                                 direction, fault, Quiet)
     IN /\ SetStore(r.db)
        /\ returned' = IF r.ret = "ok" THEN returned \cup {r.tx} ELSE returned
        /\ last' = [op |-> "ingest", cid |-> NULL,
                    res |-> IF r.ret = "ok" THEN "created" ELSE "error"]
  /\ args' = [fn |-> "insert_transaction", account_id |-> account_id,
              direction |-> direction, fault |-> fault]
  /\ UNCHANGED <<alert_rules, session, reversals, reruns, workers, applied, raced, attempts>>

\* the confirm calls: every caller, transaction, PIN and decision, and for
\* the calls that get past the PIN each statement that may fail
ConfirmAttempts ==
  {call \in Customers \X TxArgs \X Pins \X ActionArgs \X ConfirmFaults :
     \/ call[5] = "none"
     \/ check_password_hash(customer_auth_pin_hash[call[1]], call[3])}

NextFaults ==
  \/ \E a \in Accounts, amt \in Amounts, d \in {"debit", "CREDIT"}, f \in StoreFaults :
       IngestCall(a, amt, d, f)
  \/ \E c \in Customers, a \in AccountFields, amt \in Amounts, d \in DirectionFields,
        f \in FormFaults :
       PaymentForm(c, a, amt, d, f)
  \/ \E call \in ConfirmAttempts :
       ConfirmAttempt(call[1], call[2], call[3], call[4], call[5])

SpecFaults == Init /\ [][NextFaults]_vars

\* ------------------------------------------- the record-keeping handlers
\* The handlers of the portal and of the admin pages that resolve alerts,
\* delete transactions and edit accounts, next to payments and step-up.

\* UPDATE alerts SET status = ... WHERE id = ...
SetAlertStatus(D, alert_id, status) ==
  IF alert_id \in DOMAIN D.alerts
  THEN [D EXCEPT !.alerts[alert_id].status = status]
  ELSE D

\* the alert joined with its transaction and the account of the caller
OwnedAlert(D, cid, alert_id) ==
  /\ alert_id \in DOMAIN D.alerts
  /\ OwnedTransaction(D, cid, D.alerts[alert_id].transaction_id)

\* POST /portal/alerts/resolve
resolve_user_alert(D, cid, alert_id) ==
  IF ~OwnedAlert(D, cid, alert_id)
  THEN [db |-> D, res |-> "refused"]
  ELSE [db |-> SetAlertStatus(D, alert_id, "cleared"), res |-> "done"]

\* POST /admin/alerts/resolve
resolve_alert(D, alert_id) ==
  [db |-> SetAlertStatus(D, alert_id, "resolved"), res |-> "done"]

\* DELETE FROM alerts WHERE transaction_id = ...; DELETE FROM transactions WHERE id = ...
DeleteTransactionRows(D, transaction_id) ==
  [D EXCEPT
     !.alerts = [i \in DOMAIN D.alerts \ AlertsOf(D, transaction_id) |-> D.alerts[i]],
     !.transactions = [t \in DOMAIN D.transactions \ {transaction_id} |-> D.transactions[t]]]

\* POST /portal/transactions/delete
delete_portal_transaction(D, cid, transaction_id) ==
  IF ~OwnedTransaction(D, cid, transaction_id)
  THEN [db |-> D, res |-> "refused"]
  ELSE [db |-> DeleteTransactionRows(D, transaction_id), res |-> "done"]

\* POST /admin/transactions/delete
delete_transaction(D, transaction_id) ==
  [db |-> DeleteTransactionRows(D, transaction_id), res |-> "done"]

\* POST /portal/accounts/edit: UPDATE accounts SET balance = ... WHERE id = ...
edit_account(D, cid, account_id, new_balance) ==
  IF ~OwnsAccount(cid, account_id)
  THEN [db |-> D, res |-> "refused"]
  ELSE [db |-> [D EXCEPT !.balance[account_id] = new_balance], res |-> "done"]

\* the alert identifiers the forms name
AlertArgs == 1..MaxTx

\* the balance typed into the account form
EditBalances == {CHECKING_OPENING}

\* a handler that touches the store only
RecordKeeping(r) ==
  /\ SetStore(r.db)
  /\ UNCHANGED <<alert_rules, session, returned, reversals, reruns, workers, applied,
                 raced, args, attempts>>

ResolveUserAlert(cid, alert_id) ==
  LET r == resolve_user_alert(Store, cid, alert_id)
  IN /\ RecordKeeping(r)
     /\ last' = [op |-> "resolve_user_alert", cid |-> cid, res |-> r.res]

ResolveAlert(alert_id) ==
  LET r == resolve_alert(Store, alert_id)
  IN /\ RecordKeeping(r)
     /\ last' = [op |-> "resolve_alert", cid |-> NULL, res |-> r.res]

DeletePortalTransaction(cid, transaction_id) ==
  LET r == delete_portal_transaction(Store, cid, transaction_id)
  IN /\ RecordKeeping(r)
     /\ last' = [op |-> "delete_portal_transaction", cid |-> cid, res |-> r.res]

DeleteTransaction(transaction_id) ==
  LET r == delete_transaction(Store, transaction_id)
  IN /\ RecordKeeping(r)
     /\ last' = [op |-> "delete_transaction", cid |-> NULL, res |-> r.res]

EditAccount(cid, account_id, new_balance) ==
  LET r == edit_account(Store, cid, account_id, new_balance)
  IN /\ RecordKeeping(r)
     /\ last' = [op |-> "edit_account", cid |-> cid, res |-> r.res]

NextOps ==
  \/ \E a \in Accounts, amt \in Amounts, d \in {"debit", "CREDIT"} :
       Ingest(a, NULL, amt, d, "approved", "", "none", Quiet)
  \/ \E c \in Customers, a \in Accounts, amt \in Amounts, d \in {"debit", "CREDIT"} :
       Payment(c, a, NULL, amt, d, "none", Quiet)
  \/ \E call \in ConfirmCalls :
       ConfirmStepUp(call[1], call[2], call[3], call[4], call[5])
  \/ \E c \in Customers, i \in AlertArgs : ResolveUserAlert(c, i)
  \/ \E i \in AlertArgs : ResolveAlert(i)
  \/ \E c \in Customers, t \in TxArgs : DeletePortalTransaction(c, t)
  \/ \E t \in TxArgs : DeleteTransaction(t)
  \/ \E c \in Customers, a \in Accounts, b \in EditBalances : EditAccount(c, a, b)

SpecOps == Init /\ [][NextOps]_vars

\* ------------------------------------------------------------ properties

\* credit positive, debit negative
SignedAmount(row) == IF row.direction = "credit" THEN row.amount ELSE 0 - row.amount

RECURSIVE SumSigned(_, _)
SumSigned(rows, ids) ==
  IF ids = {} THEN 0
  ELSE LET i == CHOOSE j \in ids : TRUE
       IN SignedAmount(rows[i]) + SumSigned(rows, ids \ {i})

\* the transactions insert_transaction has returned to a caller, per account
ReturnedOn(a) == {t \in returned : transactions[t].account_id = a}

\* a transaction waiting for its step-up confirmation
PendingVerification(t) ==
  /\ t \in DOMAIN transactions
  /\ transactions[t].status = "declined"

StepUpCustomer == CHOOSE c \in Customers : \E a \in Accounts : accounts_customer_id[a] = c

StepUpPin == "1234"

OtherPin == "4321"

\* C1: with no step-up denial so far, the balance of every account is its
\* opening balance plus the credits minus the debits that insert_transaction
\* has returned for it, whatever the rules did and wherever they failed.
C1_BalanceIsSumOfIngested ==
  reversals = EmptyBag =>
    \A a \in Accounts :
      balance[a] = accounts_opening[a] + SumSigned(transactions, ReturnedOn(a))

\* two ingested transactions on one account, a credit and a debit, one of them
\* with an alert, and no denial
C1_Witness ==
  /\ reversals = EmptyBag
  /\ \E a \in Accounts : \E t, u \in ReturnedOn(a) :
       /\ transactions[t].direction = "credit"
       /\ transactions[u].direction = "debit"
       /\ AlertsOf(Store, u) # {}

\* the outcome of a confirm call made in the current state without any store fault
Confirm(cid, t, pin, action) ==
  confirm_suspicious_tx(Store, session, cid, t, pin, action, "none")

\* the alerts of t all carry the status st
AllAlertsOf(D, t, st) == \A i \in AlertsOf(D, t) : D.alerts[i].status = st

\* rows and alerts of every transaction but t are as they are now
OthersUntouched(D, t) ==
  /\ DOMAIN D.transactions = DOMAIN transactions
  /\ DOMAIN D.alerts = DOMAIN alerts
  /\ \A u \in DOMAIN transactions : u # t => D.transactions[u] = transactions[u]
  /\ \A i \in DOMAIN alerts : alerts[i].transaction_id # t => D.alerts[i] = alerts[i]

\* C2: denying a pending transaction with the correct PIN takes its signed
\* amount off the balance again (a debit is added back, a credit subtracted),
\* which is the balance from before its ingestion, sets its status to
\* reversed and every alert of it to confirmed.
C2_DenyReversesInFull ==
  \A t \in DOMAIN transactions :
    PendingVerification(t) =>
      LET r == Confirm(StepUpCustomer, t, StepUpPin, "deny")
          a == transactions[t].account_id
      IN /\ r.res = "reversed"
         /\ r.db.balance = [balance EXCEPT ![a] = @ - SignedAmount(transactions[t])]
         /\ r.db.transactions[t] = [transactions[t] EXCEPT !.status = "reversed"]
         /\ AllAlertsOf(r.db, t, "confirmed")
         /\ OthersUntouched(r.db, t)

\* a flagged payment was denied: it is reversed, its alerts are confirmed and
\* the account is back at its opening balance
C2_Witness ==
  /\ last = [op |-> "confirm", cid |-> StepUpCustomer, res |-> "reversed"]
  /\ \E t \in DOMAIN transactions :
       /\ transactions[t].status = "reversed"
       /\ AlertRowsWithSeverity(Store, t, {"med", "high"}) # {}
       /\ AllAlertsOf(Store, t, "confirmed")
       /\ returned = {t}
       /\ balance = accounts_opening

\* C3: approving a pending transaction with the correct PIN sets its status
\* to approved and every alert of it to cleared, and leaves every balance at
\* the value ingestion gave it.
C3_ApproveKeepsBalance ==
  \A t \in DOMAIN transactions :
    PendingVerification(t) =>
      LET r == Confirm(StepUpCustomer, t, StepUpPin, "approve")
      IN /\ r.res = "approved"
         /\ r.db.balance = balance
         /\ r.db.transactions[t] = [transactions[t] EXCEPT !.status = "approved"]
         /\ AllAlertsOf(r.db, t, "cleared")
         /\ OthersUntouched(r.db, t)

\* a flagged debit was approved: the balance still carries its amount once
C3_Witness ==
  /\ last = [op |-> "confirm", cid |-> StepUpCustomer, res |-> "approved"]
  /\ reversals = EmptyBag
  /\ \E t \in DOMAIN transactions :
       /\ transactions[t].status = "approved"
       /\ transactions[t].direction = "debit"
       /\ AlertsOf(Store, t) # {}
       /\ AllAlertsOf(Store, t, "cleared")
       /\ returned = {t}
       /\ balance[transactions[t].account_id] =
            accounts_opening[transactions[t].account_id] - transactions[t].amount

\* C4 as claimed: the status of a stored transaction changes only from
\* declined, and then to approved or reversed; a confirm on a transaction
\* that is not pending changes nothing.
C4_StatusChangesOnlyFromPending ==
  [][\A t \in DOMAIN transactions :
       t \in DOMAIN transactions' /\ transactions'[t].status # transactions[t].status
         => /\ transactions[t].status = "declined"
            /\ transactions'[t].status \in {"approved", "reversed"}]_vars

\* C5: a confirm with a wrong PIN on a pending transaction changes no row and
\* no balance, and leaves the session's pending identifier on the transaction.
C5_WrongPinKeepsPending ==
  \A t \in DOMAIN transactions : \A act \in ActionArgs \cup {"approve"} :
    PendingVerification(t) =>
      LET r == Confirm(StepUpCustomer, t, OtherPin, act)
      IN /\ r.res = "incorrect_pin"
         /\ r.db = Store
         /\ r.session[StepUpCustomer] = t

\* a wrong PIN was entered for the pending transaction of the session
C5_Witness ==
  /\ last = [op |-> "confirm", cid |-> StepUpCustomer, res |-> "incorrect_pin"]
  /\ session[StepUpCustomer] # NULL
  /\ PendingVerification(session[StepUpCustomer])
  /\ AllAlertsOf(Store, session[StepUpCustomer], "open")
  /\ AlertsOf(Store, session[StepUpCustomer]) # {}

\* C6: a confirm that fails verification (wrong PIN, unknown transaction,
\* transaction of an account the caller does not own) changes no balance, no
\* transaction and no alert, whichever decision it carries.
C6_RejectedConfirmChangesNothing ==
  \A c \in Customers : \A t \in TxArgs : \A pin \in Pins : \A act \in ActionArgs \cup {"approve"} :
    LET r == Confirm(c, t, pin, act)
    IN (\/ ~check_password_hash(customer_auth_pin_hash[c], pin)
        \/ t \notin DOMAIN transactions
        \/ accounts_customer_id[transactions[t].account_id] # c)
       => /\ r.db = Store
          /\ r.res \in {"incorrect_pin", "not_found"}

\* customer 2 named a pending transaction of customer 1 and was turned away
C6_Witness ==
  /\ last = [op |-> "confirm", cid |-> 2, res |-> "not_found"]
  /\ \E t \in DOMAIN transactions :
       /\ PendingVerification(t)
       /\ AllAlertsOf(Store, t, "open")
       /\ accounts_customer_id[transactions[t].account_id] # 2

\* the runs of insert_transaction in which rule evaluation fails: a statement
\* of the engine raises, or both store-side procedures do
FailingRuleRuns ==
  {<<f, Quiet>> : f \in RuleFaults \ {"none"}} \cup {<<"none", <<"raise", "raise">>>>}

\* C7: when rule evaluation fails anywhere, insert_transaction still returns
\* the new identifier, and the row it inserted and the balance update it
\* applied are in the store.
C7_RuleFailureKeepsFinancialWrite ==
  \A a \in Accounts : \A amt \in Amounts : \A d \in DirectionArgs : \A run \in FailingRuleRuns :
    LET r == insert_transaction(Store, a, NULL, amt, "approved", "", d, run[1], run[2])
        dir == IF Lower(d) = "credit" THEN "credit" ELSE "debit"
    IN /\ r.ret = "ok"
       /\ r.tx = tx_seq + 1
       /\ DOMAIN r.db.transactions = DOMAIN transactions \cup {r.tx}
       /\ r.db.transactions[r.tx] =
            [account_id |-> a, merchant_id |-> NULL, amount |-> amt, direction |-> dir,
             status |-> "approved", ts |-> "now"]
       /\ r.db.balance =
            [balance EXCEPT ![a] = @ + (IF dir = "credit" THEN amt ELSE 0 - amt)]
       /\ \A u \in DOMAIN transactions : r.db.transactions[u] = transactions[u]

\* a debit over the threshold of account 2 was ingested and returned, its
\* amount is off the balance, and the failed evaluation left it without alert
C7_Witness ==
  /\ last = [op |-> "ingest", cid |-> NULL, res |-> "created"]
  /\ returned = {tx_seq}
  /\ tx_seq \in DOMAIN transactions
  /\ transactions[tx_seq].account_id = 2
  /\ transactions[tx_seq].direction = "debit"
  /\ transactions[tx_seq].amount >= DEFAULT_THRESHOLD
  /\ AlertsOf(Store, tx_seq) = {}
  /\ balance[2] = accounts_opening[2] - transactions[tx_seq].amount

\* C9 as claimed: after a payment (form or demo) went through, the new
\* transaction is pending, declined and remembered in the session, exactly
\* when it has an alert of severity med or high; otherwise it keeps the
\* status it was ingested with and the session does not point at it.
C9_PendingIffMedOrHighAlert ==
  (last.op \in {"payment", "demo"} /\ last.res \in {"pending", "processed", "no_alert"}) =>
    LET t == tx_seq
        flagged == AlertRowsWithSeverity(Store, t, {"med", "high"}) # {}
    IN /\ flagged <=> (transactions[t].status = "declined" /\ session[last.cid] = t)
       /\ ~flagged => (transactions[t].status = "approved" /\ session[last.cid] # t)

RECURSIVE SumDeltas(_, _)
SumDeltas(B, es) ==
  IF es = {} THEN 0
  ELSE LET e == CHOOSE x \in es : TRUE
       IN e[2] * CopiesIn(e, B) + SumDeltas(B, es \ {e})

AppliedTo(a) == SumDeltas(applied, {e \in BagToSet(applied) : e[1] = a})

AllIdle == \A w \in Workers : workers[w].pc = "idle"

\* C10: whatever the interleaving of the statements of concurrent ingestions
\* and denials, once every request has finished the balance of each account
\* is its opening balance plus every delta an update statement applied to it.
C10_NoLostBalanceUpdate ==
  AllIdle =>
    \A a \in Accounts : balance[a] = accounts_opening[a] + AppliedTo(a)

\* two ingestions on account 1 and a denial have finished, the denial
\* reversed its transaction, and two of the balance updates were pending on
\* the account at the same time
C10_Witness ==
  /\ AllIdle
  /\ raced
  /\ returned = {1, 2}
  /\ transactions[1].account_id = 1
  /\ transactions[2].account_id = 1
  /\ reversals # EmptyBag
  /\ \E t \in DOMAIN transactions : transactions[t].status = "reversed"
  /\ BagCardinality(applied) = 3

\* ---- two concurrent ingestions, every interleaving of their statements

\* every order in which the statements of two requests can reach the store
Interleavings ==
  {s \in [1..(2 * Len(IngestStatements)) -> {1, 2}] :
     Cardinality({i \in DOMAIN s : s[i] = 1}) = Len(IngestStatements)}

\* the store and the two requests after the statements ran in the order sched
RECURSIVE RunSchedule(_, _, _)
RunSchedule(D, wks, sched) ==
  IF sched = <<>> THEN [db |-> D, wks |-> wks]
  ELSE LET r == IngestStatement(D, wks[Head(sched)])
       IN RunSchedule(r.db, [wks EXCEPT ![Head(sched)] = r.wk], Tail(sched))

\* two debits on account a, called at the same time in the current state
TwoIngestions(a, sched) ==
  RunSchedule(Store,
              << StartedIngestion(Store, a, CHOOSE x \in Amounts : TRUE, "debit"),
                 StartedIngestion(Store, a, CHOOSE x \in Amounts : TRUE, "debit") >>,
              sched).wks

\* request w took its average over rows that do not include the row of v
ExcludesOther(w, v) ==
  /\ w.account_id = v.account_id
  /\ w.pc \in {"spike", "returned"}
  /\ w.seen # {}
  /\ v.tx_id # NULL
  /\ v.tx_id \notin w.seen

Ingested(a, m, amt, d) ==
  insert_transaction(Store, a, m, amt, "approved", "", d, "none", Quiet)

\* the alerts of transaction t that carry the rule code
AlertsWithCode(D, t, code) == {i \in AlertsOf(D, t) : D.alerts[i].rule_code = code}

\* amounts just below, at and just above a cutoff
Around(cutoff) == {cutoff - 1, cutoff, cutoff + 1}

\* C12: evaluation gives a transaction an AMOUNT_THRESHOLD alert exactly when
\* it is stored as a debit and its amount is at least the threshold resolved
\* for its account: never for a credit, and also for a debit of exactly the
\* threshold. Stated for every stored transaction and for the next ingestion
\* with amounts around the threshold.
C12_ThresholdAlertIffDebitAtThreshold ==
  /\ \A t \in DOMAIN transactions :
       AlertsWithCode(Store, t, "AMOUNT_THRESHOLD") # {}
         <=> /\ transactions[t].direction = "debit"
             /\ transactions[t].amount
                  >= get_alert_rule_for_account(transactions[t].account_id).amount_threshold
  /\ tx_seq < MaxTx =>
     \A a \in Accounts, m \in RuleMerchants, d \in DirectionArgs :
       LET th == get_alert_rule_for_account(a).amount_threshold
       IN \A amt \in Around(th) \cup RuleAmounts :
            LET r == Ingested(a, m, amt, d)
                n == Cardinality(AlertsWithCode(r.db, r.tx, "AMOUNT_THRESHOLD"))
            IN IF r.db.transactions[r.tx].direction = "debit" /\ amt >= th
               THEN n = 1 ELSE n = 0

\* a debit of exactly the threshold of its account carries the alert, and a
\* credit above the threshold of its account carries none
C12_Witness ==
  /\ args.fn = "insert_transaction"
  /\ \E t, u \in DOMAIN transactions :
       /\ transactions[t].direction = "debit"
       /\ transactions[t].amount
            = get_alert_rule_for_account(transactions[t].account_id).amount_threshold
       /\ AlertsWithCode(Store, t, "AMOUNT_THRESHOLD") # {}
       /\ transactions[u].direction = "credit"
       /\ transactions[u].amount
            > get_alert_rule_for_account(transactions[u].account_id).amount_threshold
       /\ AlertsWithCode(Store, u, "AMOUNT_THRESHOLD") = {}

\* the average amount of the transactions account a has in its window now,
\* before the next one is ingested
TrailingAverage(a) ==
  rolling_avg_amount(Store, a, get_alert_rule_for_account(a).lookback_days)

\* C13 as claimed: when the account's trailing average at the time of
\* ingestion is positive, the new transaction gets a SPIKE_VS_AVG alert
\* exactly when its amount is at least the multiplier times that average,
\* with the severity of the ratio of the amount to that average.
C13_SpikeAlertIffAmountAtMultipleOfTrailingAverage ==
  tx_seq < MaxTx =>
    \A a \in Accounts, m \in RuleMerchants, amt \in RuleAmounts, d \in DirectionArgs :
      LET cfg == get_alert_rule_for_account(a)
          avg == TrailingAverage(a)
          r == Ingested(a, m, amt, d)
          spikes == AlertsWithCode(r.db, r.tx, "SPIKE_VS_AVG")
      IN (cfg.lookback_days > 0 /\ avg.total > 0) =>
           IF amt * 10 * avg.count >= cfg.spike_multiplier * avg.total
           THEN /\ Cardinality(spikes) = 1
                /\ \A i \in spikes :
                     r.db.alerts[i].severity
                       = _severity_for_spike_vs_avg(amt, avg, _merchant_risk_tier(m))
           ELSE spikes = {}

\* C14 as claimed: a debit at or above the threshold, ingested on an account
\* with no transaction in its window, gets exactly one alert from the rules
\* of the engine, AMOUNT_THRESHOLD, and no SPIKE_VS_AVG, whatever spike
\* multiplier is configured.
C14_FirstDebitGetsThresholdAlertOnly ==
  tx_seq < MaxTx =>
    \A a \in Accounts, m \in RuleMerchants, d \in DirectionArgs :
      LET th == get_alert_rule_for_account(a).amount_threshold
      IN \A amt \in Around(th) \cup RuleAmounts :
           LET r == Ingested(a, m, amt, d)
           IN (/\ r.db.transactions[r.tx].direction = "debit"
               /\ amt >= th
               /\ TrailingAverage(a).count = 0)
                => /\ Cardinality(AlertsOf(r.db, r.tx)) = 1
                   /\ Cardinality(AlertsWithCode(r.db, r.tx, "AMOUNT_THRESHOLD")) = 1
                   /\ AlertsWithCode(r.db, r.tx, "SPIKE_VS_AVG") = {}

\* ---- the severities

Tiers == {"low", "med", "high"}

\* the thresholds in use under the rule configurations
SeverityThresholds ==
  {DEFAULT_THRESHOLD} \cup
  UNION {{c.rows[k].amount_threshold : k \in DOMAIN c.rows} : c \in RuleConfigs}

\* the severity table of the threshold rule
ThresholdSeverityTable(amount, threshold, tier) ==
  CASE tier = "low" -> "high"
    [] tier = "med" -> IF amount >= 2 * threshold THEN "high" ELSE "med"
    [] tier = "high" -> IF amount >= 3 * threshold THEN "med" ELSE "low"

\* C15: for every amount, threshold and tier _severity_for_threshold follows
\* the table (low: high; med: high from twice the threshold on, else med;
\* high: med from three times the threshold on, else low), the cutoffs
\* included; and every AMOUNT_THRESHOLD alert stored carries the severity of
\* the table for its transaction.
C15_SeverityForThresholdFollowsTable ==
  /\ _severity_for_threshold(399, 200, "med") = "med"
  /\ _severity_for_threshold(400, 200, "med") = "high"
  /\ \A amt \in 200..202 : _severity_for_threshold(amt, 200, "low") = "high"
  /\ \A th \in SeverityThresholds, tier \in Tiers :
       \A amt \in Around(th) \cup Around(2 * th) \cup Around(3 * th) \cup RuleAmounts :
         _severity_for_threshold(amt, th, tier) = ThresholdSeverityTable(amt, th, tier)
  /\ \A t \in DOMAIN transactions :
       \A i \in AlertsWithCode(Store, t, "AMOUNT_THRESHOLD") :
         alerts[i].severity =
           ThresholdSeverityTable(transactions[t].amount,
             get_alert_rule_for_account(transactions[t].account_id).amount_threshold,
             _merchant_risk_tier(transactions[t].merchant_id))

\* two stored threshold alerts on cutoffs: an amount of exactly twice the
\* threshold at tier med is high, an amount of at least three times the
\* threshold at tier high is med
C15_Witness ==
  \E t, u \in DOMAIN transactions :
    /\ _merchant_risk_tier(transactions[t].merchant_id) = "med"
    /\ transactions[t].amount
         = 2 * get_alert_rule_for_account(transactions[t].account_id).amount_threshold
    /\ \E i \in AlertsWithCode(Store, t, "AMOUNT_THRESHOLD") : alerts[i].severity = "high"
    /\ _merchant_risk_tier(transactions[u].merchant_id) = "high"
    /\ transactions[u].amount
         >= 3 * get_alert_rule_for_account(transactions[u].account_id).amount_threshold
    /\ \E i \in AlertsWithCode(Store, u, "AMOUNT_THRESHOLD") : alerts[i].severity = "med"

\* rolling averages: none, whole numbers and a fraction (250 / 2, 700 / 3)
SeverityAverages ==
  { [total |-> 0, count |-> 0], [total |-> 100, count |-> 1], [total |-> 400, count |-> 1],
    [total |-> 250, count |-> 2], [total |-> 700, count |-> 3] }

\* the severity table of the spike rule, on ratio = amount / avg, 0 without
\* an average
SpikeSeverityTable(amount, avg, tier) ==
  LET reaches(k) == avg.total > 0 /\ amount * avg.count >= k * avg.total
  IN CASE tier = "low" -> IF reaches(2) THEN "high" ELSE "med"
       [] tier = "med" -> IF reaches(3) THEN "high" ELSE "med"
       [] tier = "high" -> IF reaches(4) THEN "med" ELSE "low"

\* the rows the average of stored transaction t was taken over: those of its
\* account up to itself
AverageAt(t) ==
  LET ids == {u \in DOMAIN transactions :
                u <= t /\ transactions[u].account_id = transactions[t].account_id}
  IN [total |-> SumAmounts(Store, ids), count |-> Cardinality(ids)]

\* C16: for every amount, average and tier _severity_for_spike_vs_avg follows
\* the table on ratio = amount / avg (low: high from 2 on, else med; med: high
\* from 3 on, else med; high: med from 4 on, else low; ratio 0 without an
\* average), the cutoffs included; and every SPIKE_VS_AVG alert stored
\* carries the severity of the table for the average it was decided on.
C16_SeverityForSpikeFollowsTable ==
  /\ \A avg \in SeverityAverages, tier \in Tiers :
       \A amt \in RuleAmounts \cup {0} \cup
                  UNION {Around((k * avg.total) \div (IF avg.count = 0 THEN 1 ELSE avg.count))
                           : k \in 2..4} :
         _severity_for_spike_vs_avg(amt, avg, tier) = SpikeSeverityTable(amt, avg, tier)
  /\ \A t \in DOMAIN transactions :
       \A i \in AlertsWithCode(Store, t, "SPIKE_VS_AVG") :
         alerts[i].severity =
           SpikeSeverityTable(transactions[t].amount, AverageAt(t),
                              _merchant_risk_tier(transactions[t].merchant_id))

\* two stored spike alerts, one at tier high (low) and one at tier med (med)
C16_Witness ==
  \E t, u \in DOMAIN transactions :
    /\ _merchant_risk_tier(transactions[t].merchant_id) = "high"
    /\ \E i \in AlertsWithCode(Store, t, "SPIKE_VS_AVG") : alerts[i].severity = "low"
    /\ _merchant_risk_tier(transactions[u].merchant_id) = "med"
    /\ \E i \in AlertsWithCode(Store, u, "SPIKE_VS_AVG") : alerts[i].severity = "med"

\* ---- the two rules together

\* the threshold rule applies to stored transaction t
ThresholdApplies(t) ==
  /\ transactions[t].direction = "debit"
  /\ transactions[t].amount
       >= get_alert_rule_for_account(transactions[t].account_id).amount_threshold

\* the spike rule applies to stored transaction t, on the average the
\* engine took for it
SpikeApplies(t) ==
  LET cfg == get_alert_rule_for_account(transactions[t].account_id)
  IN /\ cfg.lookback_days > 0
     /\ AverageAt(t).total > 0
     /\ transactions[t].amount * 10 * AverageAt(t).count
          >= cfg.spike_multiplier * AverageAt(t).total

\* C17: a transaction that both rules apply to has two alerts, the
\* AMOUNT_THRESHOLD one created first and the SPIKE_VS_AVG one second, each
\* with the severity of its own table; neither rule's alert depends on
\* whether the other rule fired.
C17_BothRulesAlertIndependently ==
  \A t \in DOMAIN transactions :
    LET th == AlertsWithCode(Store, t, "AMOUNT_THRESHOLD")
        sp == AlertsWithCode(Store, t, "SPIKE_VS_AVG")
        tier == _merchant_risk_tier(transactions[t].merchant_id)
    IN /\ Cardinality(th) = (IF ThresholdApplies(t) THEN 1 ELSE 0)
       /\ Cardinality(sp) = (IF SpikeApplies(t) THEN 1 ELSE 0)
       /\ (ThresholdApplies(t) /\ SpikeApplies(t)) =>
            /\ AlertsOf(Store, t) = th \cup sp
            /\ \A i \in th, j \in sp :
                 /\ i < j
                 /\ alerts[i].severity =
                      ThresholdSeverityTable(transactions[t].amount,
                        get_alert_rule_for_account(transactions[t].account_id).amount_threshold,
                        tier)
                 /\ alerts[j].severity =
                      SpikeSeverityTable(transactions[t].amount, AverageAt(t), tier)

\* a transaction carries both alerts, the threshold one first, and the two
\* severities differ
C17_Witness ==
  \E t \in DOMAIN transactions :
    /\ ThresholdApplies(t) /\ SpikeApplies(t)
    /\ \E i \in AlertsWithCode(Store, t, "AMOUNT_THRESHOLD") :
         \E j \in AlertsWithCode(Store, t, "SPIKE_VS_AVG") :
           i < j /\ alerts[i].severity # alerts[j].severity

\* ---- the store-side procedures

\* every pair of outcomes of the two procedures in which at least one fails
FailingProcRuns ==
  {p \in {"raise", "quiet", "med", "high"} \X {"raise", "quiet", "med", "high"} :
     p[1] = "raise" \/ p[2] = "raise"}

\* C18: when a store-side procedure fails, the other one is still called
\* (its alert is stored), the alerts of the rules before them are the same as
\* in a run where both procedures are silent, and the ingestion ends with the
\* row stored, the balance updated and the identifier returned.
C18_ProcedureFailureIsIgnored ==
  tx_seq < MaxTx =>
    \A a \in Accounts, m \in MerchantArgs, amt \in Amounts, d \in DirectionArgs,
       p \in FailingProcRuns :
      LET r == insert_transaction(Store, a, m, amt, "approved", "", d, "none", p)
          q == Ingested(a, m, amt, d)
          own == {"AMOUNT_THRESHOLD", "SPIKE_VS_AVG"}
      IN /\ r.ret = "ok" /\ r.tx = tx_seq + 1
         /\ r.db.transactions = q.db.transactions
         /\ r.tx \in DOMAIN r.db.transactions
         /\ r.db.balance = [balance EXCEPT ![a] = @ + SignedAmount(r.db.transactions[r.tx])]
         /\ \A code \in own :
              {r.db.alerts[i] : i \in AlertsWithCode(r.db, r.tx, code)}
                = {q.db.alerts[i] : i \in AlertsWithCode(q.db, q.tx, code)}
         /\ \A i \in DOMAIN alerts : r.db.alerts[i] = alerts[i]
         /\ p[1] \in {"med", "high"} =>
              \E i \in AlertsWithCode(r.db, r.tx, "NEW_DEVICE") : r.db.alerts[i].severity = p[1]
         /\ p[2] \in {"med", "high"} =>
              \E i \in AlertsWithCode(r.db, r.tx, "VELOCITY_3IN2MIN") :
                r.db.alerts[i].severity = p[2]

\* an ingestion in which the first procedure failed: the transaction has the
\* alert of the second procedure next to its threshold alert, it was returned
\* and the balance carries it
C18_Witness ==
  /\ last.op = "ingest" /\ last.res = "created"
  /\ tx_seq = 1 /\ returned = {1}
  /\ AlertsWithCode(Store, 1, "VELOCITY_3IN2MIN") # {}
  /\ AlertsWithCode(Store, 1, "NEW_DEVICE") = {}
  /\ AlertsWithCode(Store, 1, "AMOUNT_THRESHOLD") # {}
  /\ balance[transactions[1].account_id]
       = accounts_opening[transactions[1].account_id] - transactions[1].amount

\* ---- the rule configuration

\* threshold 200, multiplier 2.5 (in tenths), lookback 30
HardCodedDefaults == [amount_threshold |-> 200, spike_multiplier |-> 25, lookback_days |-> 30]

\* the resolution order: the row of the account, else the global default
\* row, else the hard-coded defaults; the hard-coded defaults also when the
\* table is missing
ResolvedInOrder(account) ==
  IF ~alert_rules.exists THEN HardCodedDefaults
  ELSE IF account # NULL /\ account \in DOMAIN alert_rules.rows THEN alert_rules.rows[account]
  ELSE IF NULL \in DOMAIN alert_rules.rows THEN alert_rules.rows[NULL]
  ELSE HardCodedDefaults

\* C19 as claimed: for every account argument, the null one included,
\* get_alert_rule_for_account resolves in that order.
C19_ResolvesInOrderForEveryArgument ==
  \A account \in Accounts \cup {NULL} :
    get_alert_rule_for_account(account) = ResolvedInOrder(account)

\* C19 amended: for every account identifier get_alert_rule_for_account
\* resolves in that order; for the null account argument it returns the
\* hard-coded defaults without looking at the table, global default row or
\* not.
C19_ResolvesInOrderForAccounts ==
  /\ \A account \in Accounts :
       get_alert_rule_for_account(account) = ResolvedInOrder(account)
  /\ get_alert_rule_for_account(NULL) = HardCodedDefaults

\* the table holds a row for account 1 next to the global default row, and
\* the engine used each where it applies: a debit on account 1 between the
\* two thresholds got no threshold alert, a debit of the same kind on
\* account 2 got one
C19_Witness ==
  /\ alert_rules.exists
  /\ {NULL, 1} \subseteq DOMAIN alert_rules.rows
  /\ 2 \notin DOMAIN alert_rules.rows
  /\ alert_rules.rows[NULL].amount_threshold < alert_rules.rows[1].amount_threshold
  /\ \E t, u \in DOMAIN transactions :
       /\ transactions[t].account_id = 1 /\ transactions[u].account_id = 2
       /\ transactions[t].direction = "debit" /\ transactions[u].direction = "debit"
       /\ transactions[t].amount = transactions[u].amount
       /\ transactions[t].amount >= alert_rules.rows[NULL].amount_threshold
       /\ transactions[t].amount < alert_rules.rows[1].amount_threshold
       /\ AlertsWithCode(Store, t, "AMOUNT_THRESHOLD") = {}
       /\ AlertsWithCode(Store, u, "AMOUNT_THRESHOLD") # {}

\* ---- the direction of a transaction

\* the directions a call can carry: the ones the handlers draw, and both
\* spellings of each valid value
DirectionInputs == DirectionArgs \cup {"debit", "credit", "DEBIT", "CREDIT"}

\* the row and the balance a direct call leaves for the account
StoredAs(a, amt, d, stored, delta) ==
  LET r == Ingested(a, NULL, amt, d)
  IN /\ r.ret = "ok"
     /\ r.db.transactions[r.tx].direction = stored
     /\ r.db.transactions[r.tx].amount = amt
     /\ r.db.balance = [balance EXCEPT ![a] = @ + delta]

\* C20 as claimed: a direction that is missing or is not one of the two
\* values debit and credit is stored as 'debit' and the balance decreases by
\* the amount; credit increases the balance by the amount, debit decreases
\* it.
C20_DirectionOutsideDebitCreditStoredAsDebit ==
  tx_seq < MaxTx =>
    \A a \in Accounts, amt \in RuleAmounts, d \in DirectionInputs :
      /\ d \notin {"debit", "credit"} => StoredAs(a, amt, d, "debit", 0 - amt)
      /\ d = "credit" => StoredAs(a, amt, d, "credit", amt)
      /\ d = "debit" => StoredAs(a, amt, d, "debit", 0 - amt)

\* the spellings of credit in any letter case
CreditSpellings == {"credit", "CREDIT"}

\* C20 amended: the direction is compared without regard to letter case. A
\* direction that is missing or is neither debit nor credit in any letter
\* case is stored as 'debit' and the balance decreases by the amount; credit
\* in any letter case is stored as 'credit' and the balance increases by the
\* amount; debit in any letter case is stored as 'debit' and the balance
\* decreases by the amount.
C20_DirectionFoldedThenDefaultsToDebit ==
  /\ tx_seq < MaxTx =>
       \A a \in Accounts, amt \in RuleAmounts, d \in DirectionInputs :
         IF d \in CreditSpellings
         THEN StoredAs(a, amt, d, "credit", amt)
         ELSE StoredAs(a, amt, d, "debit", 0 - amt)
  /\ args.fn = "insert_transaction" =>
       /\ tx_seq \in DOMAIN transactions
       /\ transactions[tx_seq].direction
            = IF args.direction \in CreditSpellings THEN "credit" ELSE "debit"

\* insert_transaction was called with a direction that is not a spelling of
\* debit or credit, or with none; the row says debit and the balance of the
\* account went down by the amount
C20_Witness ==
  /\ args.fn = "insert_transaction"
  /\ args.direction \in {"wire", ""}
  /\ tx_seq \in DOMAIN transactions
  /\ DOMAIN transactions = {tx_seq}
  /\ transactions[tx_seq].account_id = args.account_id
  /\ transactions[tx_seq].direction = "debit"
  /\ balance[args.account_id] = accounts_opening[args.account_id] - args.amount

\* ---- requests that are turned away

\* the payment form posted in the current state, no statement failing
Posted(c, a, amt, d) ==
  create_portal_transaction(Store, session, c, a, NULL, amt, d, "none", Quiet)

\* a direction outside debit and credit, in any letter case
InvalidDirections == {"wire"}

\* C21 as claimed: a payment request with an invalid direction or without
\* its account is rejected before any write: no row, no balance change, no
\* alert, and nothing is processed.
C21_InvalidRequestRejectedBeforeWrite ==
  tx_seq < MaxTx =>
    \A c \in Customers, a \in AccountFields, amt \in Amounts, d \in DirectionArgs :
      (a = NULL \/ d \in InvalidDirections) =>
        /\ Posted(c, a, amt, d).db = Store
        /\ Posted(c, a, amt, d).res \notin {"processed", "pending"}

\* C21 amended: a payment request without its account is rejected before any
\* write: no row, no balance change, no alert, no pending identifier. An
\* invalid direction is not rejected: on an account of the caller the
\* request is ingested as a debit, the row is written and the balance goes
\* down by the amount.
C21_MissingAccountRejectedInvalidDirectionDebited ==
  /\ tx_seq < MaxTx =>
       \A c \in Customers, a \in AccountFields, amt \in Amounts, d \in DirectionArgs :
         LET r == Posted(c, a, amt, d)
         IN /\ a = NULL => /\ r.db = Store
                           /\ r.session = session
                           /\ r.res = "error"
            /\ (a # NULL /\ accounts_customer_id[a] = c /\ d \in InvalidDirections) =>
                 /\ r.res \in {"processed", "pending"}
                 /\ r.tx = tx_seq + 1
                 /\ DOMAIN r.db.transactions = DOMAIN transactions \cup {r.tx}
                 /\ r.db.transactions[r.tx].direction = "debit"
                 /\ r.db.balance = [balance EXCEPT ![a] = @ - amt]
  /\ (last.op = "payment" /\ args.fn = "create_portal_transaction" /\ args.fault = "none") =>
       /\ args.account_id = NULL => last.res = "error"
       /\ (args.account_id # NULL /\ accounts_customer_id[args.account_id] = last.cid) =>
            /\ last.res \in {"processed", "pending"}
            /\ tx_seq \in DOMAIN transactions
            /\ transactions[tx_seq].account_id = args.account_id
            /\ transactions[tx_seq].direction = "debit"

\* after a payment with the invalid direction went through as a debit, the
\* form was posted without its account and nothing failing: the request was
\* turned away and the store still holds just that one debit
C21_Witness ==
  /\ args.fn = "create_portal_transaction"
  /\ args.account_id = NULL
  /\ args.fault = "none"
  /\ last.op = "payment"
  /\ last.res = "error"
  /\ DOMAIN transactions = {1}
  /\ returned = {1}
  /\ transactions[1].direction = "debit"
  /\ reversals = EmptyBag
  /\ balance[transactions[1].account_id]
       = accounts_opening[transactions[1].account_id] - transactions[1].amount

\* ---- what may change an alert or a balance

\* C22 as claimed: an alert is created open; it becomes cleared only by a
\* step-up approval, confirmed only by a step-up denial, resolved only by
\* the operator's override; it takes no other status.
C22_AlertStatusMovesOnlyByStepUp ==
  [][\A i \in DOMAIN alerts' :
       /\ i \notin DOMAIN alerts => alerts'[i].status = "open"
       /\ (i \in DOMAIN alerts /\ alerts'[i].status # alerts[i].status) =>
            CASE alerts'[i].status = "cleared" ->
                   last'.op = "confirm" /\ last'.res = "approved"
              [] alerts'[i].status = "confirmed" ->
                   last'.op = "confirm" /\ last'.res = "reversed"
              [] alerts'[i].status = "resolved" ->
                   last'.op = "resolve_alert"
              [] OTHER -> FALSE]_vars

\* C23 as claimed: no step removes an alert row, and no step changes a field
\* of an alert other than its status.
C23_AlertsAreNeverRemoved ==
  [][/\ DOMAIN alerts \subseteq DOMAIN alerts'
     /\ \A i \in DOMAIN alerts \cap DOMAIN alerts' :
          [alerts'[i] EXCEPT !.status = alerts[i].status] = alerts[i]]_vars

\* the step is an ingestion that moved the balance of the account of the new
\* transaction by its signed amount
BalanceMovedByIngestion ==
  /\ last'.op \in {"ingest", "payment", "demo"}
  /\ tx_seq' = tx_seq + 1
  /\ tx_seq' \in DOMAIN transactions'
  /\ balance' = [balance EXCEPT ![transactions'[tx_seq'].account_id] =
                                   @ + SignedAmount(transactions'[tx_seq'])]

\* the step is a step-up denial that took the signed amount of its
\* transaction back off the balance
BalanceMovedByDenial ==
  /\ last'.op = "confirm"
  /\ last'.res = "reversed"
  /\ \E t \in DOMAIN transactions :
       /\ transactions'[t].status = "reversed"
       /\ balance' = [balance EXCEPT ![transactions[t].account_id] =
                                        @ - SignedAmount(transactions[t])]

\* C24 as claimed: a step that changes a balance is an ingestion, which adds
\* the signed amount of the new transaction, or a step-up denial, which
\* takes the signed amount of its transaction back; every other operation
\* leaves all balances as they are.
C24_BalanceMovesOnlyByIngestionAndDenial ==
  [][balance' # balance => (BalanceMovedByIngestion \/ BalanceMovedByDenial)]_vars

\* ---- wrong PINs before the right one

\* the store and the session after n confirmations of t with a wrong PIN
RECURSIVE WrongPinTries(_, _, _, _, _, _)
WrongPinTries(D, sess, c, t, act, n) ==
  IF n = 0 THEN [db |-> D, session |-> sess]
  ELSE LET r == confirm_suspicious_tx(D, sess, c, t, OtherPin, act, "none")
       IN WrongPinTries(r.db, r.session, c, t, act, n - 1)

\* C25: after any number of confirmations with a wrong PIN on a pending
\* transaction (here up to one more than the runs count), the confirmation
\* with the correct PIN still completes the decision it carries: approve
\* gives approved and cleared alerts, deny gives reversed, confirmed alerts
\* and the amount back on the balance, exactly as without the wrong PINs.
C25_NoRetryLimit ==
  \A t \in DOMAIN transactions : \A act \in ActionArgs \cup {"approve"} :
    \A n \in 0..(MaxAttempts + 1) :
      PendingVerification(t) =>
        LET w == WrongPinTries(Store, session, StepUpCustomer, t, act, n)
            r == confirm_suspicious_tx(w.db, w.session, StepUpCustomer, t, StepUpPin,
                                       act, "none")
        IN /\ w.db = Store
           /\ r.res = (IF act = "deny" THEN "reversed" ELSE "approved")
           /\ r.db = Confirm(StepUpCustomer, t, StepUpPin, act).db
           /\ r.db.transactions[t].status = r.res
           /\ AllAlertsOf(r.db, t, IF act = "deny" THEN "confirmed" ELSE "cleared")
           /\ r.session[StepUpCustomer] = NULL

\* the only transaction was confirmed with a wrong PIN as often as the runs
\* count while it was pending, and the denial with the correct PIN that came
\* last reversed it
C25_Witness ==
  /\ last = [op |-> "confirm", cid |-> StepUpCustomer, res |-> "reversed"]
  /\ \E t \in DOMAIN transactions :
       /\ DOMAIN transactions = {t}
       /\ attempts[t] = MaxAttempts
       /\ transactions[t].status = "reversed"
       /\ AlertsOf(Store, t) # {}
       /\ AllAlertsOf(Store, t, "confirmed")
       /\ balance = accounts_opening
       /\ session[StepUpCustomer] = NULL

\* ---- the balance against the transactions that stand

\* the transactions of account a that are not reversed
Standing(a) ==
  {t \in DOMAIN transactions :
     transactions[t].account_id = a /\ transactions[t].status # "reversed"}

\* C26 as claimed: after any sequence of ingestions and step-up
\* confirmations, the balance of every account is its opening balance plus
\* the signed amounts of its transactions that are not reversed.
C26_BalanceIsSumOfStandingTransactions ==
  \A a \in Accounts :
    balance[a] = accounts_opening[a] + SumSigned(transactions, Standing(a))

\* ---- a rule that fails and the rules after it

\* the statements of the threshold alert that may fail
ThresholdAlertFaults == {"alert_threshold", "mirror_threshold"}

\* the rules that come after the amount threshold rule
LaterRuleCodes == {"SPIKE_VS_AVG", "NEW_DEVICE", "VELOCITY_3IN2MIN"}

\* C27 as claimed: when materializing the AMOUNT_THRESHOLD alert fails (the
\* insert or the notification mirror), the rules later in the order are
\* still evaluated: the transaction gets the SPIKE_VS_AVG, NEW_DEVICE and
\* VELOCITY_3IN2MIN alerts it gets when nothing fails.
C27_LaterRulesRunAfterAlertFailure ==
  tx_seq < MaxTx =>
    \A a \in Accounts, amt \in Amounts, d \in DirectionArgs, procs \in ProcRuns :
      \A fault \in ThresholdAlertFaults : \A code \in LaterRuleCodes :
        LET r == insert_transaction(Store, a, NULL, amt, "approved", "", d, fault, procs)
            q == insert_transaction(Store, a, NULL, amt, "approved", "", d, "none", procs)
        IN Cardinality(AlertsWithCode(r.db, r.tx, code))
             = Cardinality(AlertsWithCode(q.db, q.tx, code))

\* ---- the pending identifier of the session

\* C28 as claimed: every transaction that is pending (declined) is the one
\* its owner's session points at, and the pending identifier of a session
\* only ever names a pending transaction.
C28_PendingIdentifierTracksPending ==
  /\ \A t \in DOMAIN transactions :
       transactions[t].status = "declined" => session[StepUpCustomerOf(t)] = t
  /\ \A c \in Customers :
       session[c] # NULL => PendingVerification(session[c])

\* ---- writes that stop half-way

\* C29 as claimed: once a confirm call has ended, a transaction whose amount
\* was reversed on the balance is not declined any more and has no open
\* alert, and a transaction with status reversed had its amount reversed on
\* the balance, also when a statement of the denial failed.
C29_DenialIsAllOrNothing ==
  \A t \in DOMAIN transactions :
    /\ CopiesIn(t, reversals) > 0 =>
         /\ transactions[t].status # "declined"
         /\ \A i \in AlertsOf(Store, t) : alerts[i].status # "open"
    /\ transactions[t].status = "reversed" => CopiesIn(t, reversals) > 0

\* the transaction rows of account a
RowsOn(a) == {t \in DOMAIN transactions : transactions[t].account_id = a}

\* C30 as claimed: once insert_transaction has ended, returned or raised,
\* every transaction row is matched by its signed amount on the balance of
\* its account: with no reversal so far, each balance is the opening balance
\* plus the signed amounts of all rows of the account.
C30_RowImpliesBalanceAdjusted ==
  reversals = EmptyBag =>
    \A a \in Accounts :
      balance[a] = accounts_opening[a] + SumSigned(transactions, RowsOn(a))

====
